---- MODULE Spec2Model ----
(***************************************************************************)
(* A model of ncdfchecker: the validation of a netCDF product against a    *)
(* JSON set of constraints (check_globals, simple_variable_checks, the     *)
(* __main__ driver) and its calendar-aware interval check (check_stepsize, *)
(* get_period_stepsize).                                                   *)
(*                                                                         *)
(* Four specifications share the module:                                   *)
(*   Spec       a run of the __main__ driver on a product and constraints  *)
(*              drawn from bounded sets;                                   *)
(*   SpecStep   calls of check_stepsize on lead times, step sizes,         *)
(*              reference times and periods drawn from bounded sets;       *)
(*   SpecMatch  calls of match_pattern on patterns and strings drawn from  *)
(*              bounded sets;                                              *)
(*   SpecLogger a process that configures the logger of the program name   *)
(*              and calls the validators with and without a logger.        *)
(***************************************************************************)
EXTENDS Integers, Sequences, FiniteSets, TLC

VARIABLES
    \* ---- a run of the __main__ driver (Spec)
    pc,          \* where the run stands
    strict,      \* args.strict
    product,     \* the netCDF product, once load_input has returned
    constraints, \* the constraints, once load_constraints has returned
    gi,          \* check_globals: index into required_global_attributes
    vi,          \* simple_variable_checks: index into product.variables
    ki,          \* simple_variable_checks: index into constraints[variable]
    errcount,    \* the errcount of the validator that is running
    warncount,   \* the warncount of the validator that is running
    returns,     \* the (errcount, warncount) pairs the validators returned
    total,       \* the running totals of __main__
    events,      \* the calls made on the logger, in order
    abort,       \* why the run was cut short ("none" while it is not):
                 \* "load_input", "load_constraints" (IOError, caught),
                 \* "parse_constraints", "exception" (uncaught exception),
                 \* "unsupported_period" (sys.exit with a message)
    exitStatus,  \* the exit status of the process (-1 while it runs)
    \* ---- check_stepsize called on its own (SpecStep)
    data,        \* the lead times handed to check_stepsize (hours)
    stepsize,    \* the expected step
    ref,         \* forecast_ref_time, as a parsed datetime
    period,      \* "none" (period=None), "hours", "days", "month", "years"
    called,      \* check_stepsize has returned for the current data
    result,      \* the value it returned
    perturbed,   \* one element of data was changed and the check called again
    before,      \* the value returned before the element was changed
    \* ---- match_pattern called on its own (SpecMatch)
    patt,        \* the compiled pattern, as its sequence of tokens
    text,        \* the string matched against it (value), as its characters
    matchCalled, \* match_pattern has returned
    match,       \* the value it returned (match is not None)
    \* ---- the validators called as library functions (SpecLogger)
    logger,      \* logging.getLogger(sys.argv[0]): its level and handlers
    ncalls,      \* the number of calls of a validator made so far
    lastCall     \* the validator called last and its logger argument

runVars == <<pc, strict, product, constraints, gi, vi, ki, errcount,
             warncount, returns, total, events, abort, exitStatus>>

stepVars == <<data, stepsize, ref, period, called, result, perturbed, before>>

matchVars == <<patt, text, matchCalled, match>>

loggerVars == <<logger, ncalls, lastCall>>

vars == <<pc, strict, product, constraints, gi, vi, ki, errcount, warncount,
          returns, total, events, abort, exitStatus,
          data, stepsize, ref, period, called, result, perturbed, before,
          patt, text, matchCalled, match,
          logger, ncalls, lastCall>>

(***************************************************************************)
(* Bounds of the model.                                                    *)
(***************************************************************************)
\* Longest sequence of lead times handed to check_stepsize.
MaxLen == 3

\* Longest list of constraint keys drawn for one variable.
MaxKeys == 2

\* Longest pattern and longest string handed to match_pattern.
MaxStr == 3

\* Most calls of a validator, and most calls of initialise_logger by the
\* caller, in one process.
MaxCalls == 3

(***************************************************************************)
(* Small helpers.                                                          *)
(***************************************************************************)
Sign(n) == IF n < 0 THEN -1 ELSE 1

Abs(n) == IF n < 0 THEN -n ELSE n

Min(a, b) == IF a <= b THEN a ELSE b

\* All sequences over S of length at most n.
SeqsUpTo(S, n) == UNION {[1..k -> S] : k \in 0..n}

(***************************************************************************)
(* The logger: logging.getLogger(name) gives the one logger the process    *)
(* keeps under that name.  A logger is [level, handlers]; a handler is     *)
(* [stream, start, end], a stream with the LevelFilter put on it.          *)
(***************************************************************************)
\* The levels of the logging module.
NOTSET == 0

DEBUG == 10

INFO == 20

WARNING == 30

ERROR == 40

CRITICAL == 50

\* The logger of that name before anything has configured it.
NoLogger == [level |-> NOTSET, handlers |-> <<>>]

\* No validator has been called yet.
NoCall == [fn |-> "none", logger |-> "none"]

\* LevelFilter(start, end) on a StreamHandler.
Handler(stream, start, end) == [stream |-> stream, start |-> start, end |-> end]

\* initialise_logger(verbosity=...): the logger registered under the name
\* gets the level, and one handler more on stdout and on stderr.
initialise_logger(lg, verbosity) ==
    [level |-> verbosity,
     handlers |-> lg.handlers
                  \o <<Handler("stdout", DEBUG, WARNING),
                       Handler("stderr", ERROR, CRITICAL)>>]

\* if not isinstance(logger, logging.Logger):
\*     logger = initialise_logger(verbosity=logging.CRITICAL)
\* at the head of check_globals and simple_variable_checks: what the call
\* does to the logger registered under the name, given its logger argument.
EnsureLogger(lg, arg) ==
    IF arg # "Logger" THEN initialise_logger(lg, CRITICAL) ELSE lg

(***************************************************************************)
(* datetime: the proleptic Gregorian calendar of Python's datetime, at the *)
(* resolution of one hour (lead times are whole hours, reference times are *)
(* on the hour).  A datetime is [year, month, day, hour].                  *)
(***************************************************************************)
Date(y, m, d) == [year |-> y, month |-> m, day |-> d, hour |-> 0]

\* forecast_ref_time=None
NoTime == Date(1, 1, 1)

IsLeap(y) == (y % 4 = 0) /\ ((y % 100 # 0) \/ (y % 400 = 0))

DaysInMonth(y, m) ==
    IF m = 2 THEN (IF IsLeap(y) THEN 29 ELSE 28)
    ELSE IF m \in {4, 6, 9, 11} THEN 30 ELSE 31

DaysBeforeYear(y) ==
    (y - 1) * 365 + ((y - 1) \div 4) - ((y - 1) \div 100) + ((y - 1) \div 400)

RECURSIVE DaysBeforeMonth(_, _)
DaysBeforeMonth(y, m) ==
    IF m <= 1 THEN 0 ELSE DaysBeforeMonth(y, m - 1) + DaysInMonth(y, m - 1)

\* date.toordinal(): day 1 is 0001-01-01.
ToOrdinal(y, m, d) == DaysBeforeYear(y) + DaysBeforeMonth(y, m) + d

\* A datetime as a count of hours.
ToHours(dt) == ToOrdinal(dt.year, dt.month, dt.day) * 24 + dt.hour

\* date.fromordinal(), then the hour of the day.
FromHours(h) ==
    LET n  == h \div 24
        y  == CHOOSE yy \in ((n \div 366) + 1)..((n \div 365) + 1) :
                  DaysBeforeYear(yy) < n /\ n <= DaysBeforeYear(yy + 1)
        r  == n - DaysBeforeYear(y)
        m  == CHOOSE mm \in 1..12 :
                  DaysBeforeMonth(y, mm) < r
                  /\ r <= DaysBeforeMonth(y, mm) + DaysInMonth(y, mm)
    IN  [year |-> y, month |-> m, day |-> r - DaysBeforeMonth(y, m),
         hour |-> h % 24]

\* ref_time + datetime.timedelta(hours=leadtime)
AddHours(dt, leadtime) == FromHours(ToHours(dt) + leadtime)

(***************************************************************************)
(* dateutil.relativedelta.relativedelta(dt1, dt2): the difference dt1 - dt2 *)
(* as whole years, months (-11..11), days and hours (-23..23).             *)
(***************************************************************************)
\* dt + relativedelta(months=n): the month moves by n, the day is clipped to
\* the length of the month reached, the hour is kept.
AddMonths(dt, n) ==
    LET yrs  == Sign(n) * (Abs(n) \div 12)
        mths == Sign(n) * (Abs(n) % 12)
        m0   == dt.month + mths
        y    == dt.year + yrs + (IF m0 > 12 THEN 1 ELSE IF m0 < 1 THEN -1 ELSE 0)
        m    == IF m0 > 12 THEN m0 - 12 ELSE IF m0 < 1 THEN m0 + 12 ELSE m0
    IN  [year |-> y, month |-> m, day |-> Min(DaysInMonth(y, m), dt.day),
         hour |-> dt.hour]

\* The month count is stepped towards zero while dt2 + months overshoots dt1.
RECURSIVE AdjustMonths(_, _, _)
AdjustMonths(dt1, dt2, months) ==
    IF ToHours(dt1) < ToHours(dt2)
    THEN IF ToHours(dt1) > ToHours(AddMonths(dt2, months))
         THEN AdjustMonths(dt1, dt2, months + 1)
         ELSE months
    ELSE IF ToHours(dt1) < ToHours(AddMonths(dt2, months))
         THEN AdjustMonths(dt1, dt2, months - 1)
         ELSE months

relativedelta(dt1, dt2) ==
    LET months == AdjustMonths(dt1, dt2,
                      (dt1.year - dt2.year) * 12 + (dt1.month - dt2.month))
        rest   == ToHours(dt1) - ToHours(AddMonths(dt2, months))
    IN  [years  |-> Sign(months) * (Abs(months) \div 12),
         months |-> Sign(months) * (Abs(months) % 12),
         days   |-> Sign(rest) * (Abs(rest) \div 24),
         hours  |-> Sign(rest) * (Abs(rest) % 24)]

\* getattr(relativedelta(...), period)
DeltaField(rd, p) ==
    IF p = "years" THEN rd.years
    ELSE IF p = "days" THEN rd.days
    ELSE rd.hours

(***************************************************************************)
(* get_period_stepsize and check_stepsize.                                 *)
(***************************************************************************)
\* The datetimes of the lead times.
Datetimes(leadtimes, reftime) ==
    [i \in 1..Len(leadtimes) |-> AddHours(reftime, leadtimes[i])]

\* MonthStep without the reduction modulo 12.
MonthStepNoModulo(d1, d2) == d2.month - d1.month

\* One step of the "month" branch: the difference of the month numbers,
\* reduced modulo 12.
MonthStep(d1, d2) == (d2.month - d1.month) % 12

\* FieldStep with a year taken as a fixed 8760 hours.
FieldStepFixedYear(d1, d2, p) ==
    IF p = "years" THEN (ToHours(d2) - ToHours(d1)) \div 8760
    ELSE DeltaField(relativedelta(d2, d1), p)

\* One step of the other branch: the named field of the relativedelta.
FieldStep(d1, d2, p) == DeltaField(relativedelta(d2, d1), p)

get_period_stepsize(leadtimes, reftime, p) ==
    LET dts == Datetimes(leadtimes, reftime)
    IN  [i \in 1..(IF Len(dts) = 0 THEN 0 ELSE Len(dts) - 1) |->
            IF p = "month" THEN MonthStep(dts[i], dts[i + 1])
            ELSE FieldStep(dts[i], dts[i + 1], p)]

\* RawSteps with the difference taken the other way round.
RawStepsReversed(d) ==
    [i \in 1..(IF Len(d) = 0 THEN 0 ELSE Len(d) - 1) |-> d[i] - d[i + 1]]

\* RawSteps with the last pair of neighbours left out.
RawStepsShort(d) ==
    [i \in 1..(IF Len(d) < 2 THEN 0 ELSE Len(d) - 2) |-> d[i + 1] - d[i]]

\* data[1:len(data)] - data[0:len(data)-1]
RawSteps(d) ==
    [i \in 1..(IF Len(d) = 0 THEN 0 ELSE Len(d) - 1) |-> d[i + 1] - d[i]]

\* AllEqual with np.any in the place of np.all.
AnyEqual(steparr, step) == \E i \in 1..Len(steparr) : steparr[i] = step

\* np.all(steparr == stepsize)
AllEqual(steparr, step) == \A i \in 1..Len(steparr) : steparr[i] = step

check_stepsize(d, step, reftime, p) ==
    IF p = "none"
    THEN AllEqual(RawSteps(d), step)
    ELSE AllEqual(get_period_stepsize(d, reftime, p), step)

(***************************************************************************)
(* The product (a netCDF4.Dataset) and the constraints (the parsed JSON).  *)
(*                                                                         *)
(* A product is [gattrs, vars]: its global attributes in ncattrs() order   *)
(* and its variables in product.variables order.  A variable is            *)
(* [name, attrs, dims, data, masked]: data are its elements, masked says   *)
(* whether some element is marked missing (np.ma.is_masked).               *)
(*                                                                         *)
(* The constraints are the top-level entries of the JSON object in file    *)
(* order, each [name, kind, items, keys]: a list of strings ("list"), an   *)
(* object ("dict", its members in keys) or any other value ("other").      *)
(* A member of an object is [key, form, n, s, nums, strs, map]: form says  *)
(* which field holds its value: a number, a string, a list of numbers, a   *)
(* list of strings, or an object from companion variables to steps.        *)
(***************************************************************************)
Attr(n, v) == [name |-> n, value |-> v]

Var(n, attrs, dims, d, m) ==
    [name |-> n, attrs |-> attrs, dims |-> dims, data |-> d, masked |-> m]

TopList(n, items) == [name |-> n, kind |-> "list", items |-> items, keys |-> <<>>]

TopDict(n, keys) == [name |-> n, kind |-> "dict", items |-> <<>>, keys |-> keys]

TopOther(n) == [name |-> n, kind |-> "other", items |-> <<>>, keys |-> <<>>]

Num(k, n) ==
    [key |-> k, form |-> "num", n |-> n, s |-> "", nums |-> <<>>,
     strs |-> <<>>, map |-> <<>>]

Str(k, s) ==
    [key |-> k, form |-> "str", n |-> 0, s |-> s, nums |-> <<>>,
     strs |-> <<>>, map |-> <<>>]

Nums(k, l) ==
    [key |-> k, form |-> "nums", n |-> 0, s |-> "", nums |-> l,
     strs |-> <<>>, map |-> <<>>]

Strs(k, l) ==
    [key |-> k, form |-> "strs", n |-> 0, s |-> "", nums |-> <<>>,
     strs |-> l, map |-> <<>>]

Map(k, m) ==
    [key |-> k, form |-> "map", n |-> 0, s |-> "", nums |-> <<>>,
     strs |-> <<>>, map |-> m]

\* One member of a required_intervals object: companion variable -> step.
StepNum(v, n) == [var |-> v, isStr |-> FALSE, n |-> n, s |-> ""]

StepStr(v, s) == [var |-> v, isStr |-> TRUE, n |-> 0, s |-> s]

\* name in mapping / mapping[name], for a sequence of named entries.
Has(entries, n) == \E i \in 1..Len(entries) : entries[i].name = n

Get(entries, n) ==
    entries[CHOOSE i \in 1..Len(entries) : entries[i].name = n]

\* x in list
InList(l, x) == \E i \in 1..Len(l) : l[i] = x

\* key.startswith("required")
StartsWithRequired(k) ==
    k \in {"required", "required_values", "required_range",
           "required_min_max", "required_attributes", "required_intervals",
           "required_global_attributes", "required_foobar",
           "required_units"}

\* The characters of the strings that are matched against patterns.
Chars(s) ==
    CASE s = "time: point" -> <<"t", "i", "m", "e", ":", " ", "p", "o", "i", "n", "t">>
      [] s = "time: mean"  -> <<"t", "i", "m", "e", ":", " ", "m", "e", "a", "n">>
      [] s = "time"        -> <<"t", "i", "m", "e">>
      [] s = "point"       -> <<"p", "o", "i", "n", "t">>
      [] s = "6hr"         -> <<"6", "h", "r">>
      [] s = "day"         -> <<"d", "a", "y">>
      [] s = "mon"         -> <<"m", "o", "n">>
      [] OTHER             -> <<>>

\* The tokens of the regular expressions used as patterns: a literal
\* character, "." (any character) or "\\d" (a digit).
Tokens(pattern) ==
    CASE pattern = "\\dhr" -> <<"\\d", "h", "r">>
      [] pattern = "..."   -> <<".", ".", ".">>
      [] pattern = "\\d"   -> <<"\\d">>
      [] OTHER             -> Chars(pattern)

TokenMatches(tok, ch) ==
    IF tok = "." THEN TRUE
    ELSE IF tok = "\\d" THEN ch \in {"0", "1", "2", "3", "4", "5", "6", "7", "8", "9"}
    ELSE tok = ch

\* patt.match with re.search in its place: the match may start anywhere.
patt_search(toks, chs) ==
    \E k \in 0..Len(chs) :
        /\ k + Len(toks) <= Len(chs)
        /\ \A i \in 1..Len(toks) : TokenMatches(toks[i], chs[k + i])

\* patt.match(value) is not None: the tokens are matched one by one from
\* position 0 of the string, which may go on after the last token.
patt_match(toks, chs) ==
    /\ Len(toks) <= Len(chs)
    /\ \A i \in 1..Len(toks) : TokenMatches(toks[i], chs[i])

\* match_pattern: re.compile(pattern).match(value) is not None.
match_pattern(pattern, string) ==
    patt_match(Tokens(pattern), Chars(string))

\* A logger call: severity, the validator that made it, and what it is about.
Ev(sev, src, subject, detail) ==
    [sev |-> sev, src |-> src, subject |-> subject, detail |-> detail]

\* What one check adds: errors and warnings counted, logger calls made, and
\* whether it cut the run short ("none", "exception", "unsupported_period").
Outcome(e, w, evs, ab) == [errs |-> e, warns |-> w, evs |-> evs, abort |-> ab]

Nothing == Outcome(0, 0, <<>>, "none")

\* Two outcomes in sequence: the second happens only if the first did not
\* cut the run short.
Then(a, b) ==
    IF a.abort # "none" THEN a
    ELSE Outcome(a.errs + b.errs, a.warns + b.warns, a.evs \o b.evs, b.abort)

(***************************************************************************)
(* check_globals.                                                          *)
(***************************************************************************)
\* The default of the skip parameter.
DefaultSkip == <<"short_name">>

\* GlobalDictOutcome that stops at the first member that fails.
RECURSIVE GlobalDictFirstFailure(_, _, _, _)
GlobalDictFirstFailure(key, value, members, i) ==
    IF i > Len(members) THEN Nothing
    ELSE IF members[i].key = "pattern" /\ match_pattern(members[i].s, value)
    THEN Then(Outcome(0, 0, <<Ev("info", "globals", key, "pattern")>>, "none"),
              GlobalDictFirstFailure(key, value, members, i + 1))
    ELSE Outcome(1, 0, <<Ev("error", "globals", key, members[i].key)>>, "none")

\* One member of a constraint object on a global attribute: "pattern" is
\* matched against the attribute, any other member is not implemented.
RECURSIVE GlobalDictOutcome(_, _, _, _)
GlobalDictOutcome(key, value, members, i) ==
    IF i > Len(members) THEN Nothing
    ELSE LET one ==
                 IF members[i].key = "pattern"
                 THEN IF match_pattern(members[i].s, value)
                      THEN Outcome(0, 0, <<Ev("info", "globals", key, "pattern")>>, "none")
                      ELSE Outcome(1, 0, <<Ev("error", "globals", key, "pattern")>>, "none")
                 ELSE Outcome(1, 0, <<Ev("error", "globals", key, members[i].key)>>, "none")
         IN  Then(one, GlobalDictOutcome(key, value, members, i + 1))

\* GlobalKeyOutcome that reports a missing attribute only when the
\* constraints hold no entry for it.
GlobalKeyUnconstrainedOnly(p, c, key, skip) ==
    IF InList(skip, key) THEN Nothing
    ELSE IF Has(p.gattrs, key)
    THEN Outcome(0, 0, <<Ev("info", "globals", key, "present")>>, "none")
    ELSE IF Has(c, key) THEN Nothing
    ELSE Outcome(1, 0, <<Ev("error", "globals", key, "missing")>>, "none")

\* The body of the loop over constraints['required_global_attributes'].
GlobalKeyOutcome(p, c, key, skip) ==
    IF InList(skip, key) THEN Nothing
    ELSE IF Has(p.gattrs, key) /\ Has(c, key)
    THEN IF Get(c, key).kind = "list"
         THEN IF InList(Get(c, key).items, Get(p.gattrs, key).value)
              THEN Outcome(0, 0, <<Ev("info", "globals", key, "allowed")>>, "none")
              ELSE Outcome(1, 0, <<Ev("error", "globals", key, "allowed")>>, "none")
         ELSE IF Get(c, key).kind = "dict"
         THEN GlobalDictOutcome(key, Get(p.gattrs, key).value, Get(c, key).keys, 1)
         ELSE Outcome(0, 1, <<Ev("warning", "globals", key, "undefined")>>, "none")
    ELSE IF Has(p.gattrs, key)
    THEN Outcome(0, 0, <<Ev("info", "globals", key, "present")>>, "none")
    ELSE Outcome(1, 0, <<Ev("error", "globals", key, "missing")>>, "none")

\* GlobalStrictOutcome that counts the unrequested attributes as one error.
RECURSIVE GlobalStrictOnce(_, _, _)
GlobalStrictOnce(p, c, i) ==
    IF i > Len(p.gattrs) THEN Nothing
    ELSE IF ~InList(Get(c, "required_global_attributes").items, p.gattrs[i].name)
    THEN Outcome(1, 0, <<Ev("error", "globals", p.gattrs[i].name,
                            "unrequested")>>, "none")
    ELSE GlobalStrictOnce(p, c, i + 1)

\* The strict loop over product.ncattrs(), from its i-th attribute on.
RECURSIVE GlobalStrictOutcome(_, _, _)
GlobalStrictOutcome(p, c, i) ==
    IF i > Len(p.gattrs) THEN Nothing
    ELSE LET one ==
                 IF ~InList(Get(c, "required_global_attributes").items,
                            p.gattrs[i].name)
                 THEN Outcome(1, 0, <<Ev("error", "globals", p.gattrs[i].name,
                                         "unrequested")>>, "none")
                 ELSE Nothing
         IN  Then(one, GlobalStrictOutcome(p, c, i + 1))

(***************************************************************************)
(* simple_variable_checks.                                                 *)
(***************************************************************************)
\* ALLOWED_PERIODS with the periods of check_stepsize added.
ALLOWED_PERIODS_WithHoursDays == {"years", "month", "hours", "days"}

ALLOWED_PERIODS == {"years", "month"}

\* dateutil.parser.parse(forecast_ref_time): the timestamps the products
\* carry; anything else does not parse.
CanParse(s) == s \in {"1993-01-01T00:00:00Z", "2020-11-01T00:00:00Z"}

ParseTime(s) ==
    IF s = "2020-11-01T00:00:00Z"
    THEN Date(2020, 11, 1)
    ELSE Date(1993, 1, 1)

\* FillValueOutcome with the missing-marked elements left out of account.
FillValueIgnoresMask(pv, isStrict) ==
    IF isStrict /\ Has(pv.attrs, "_FillValue")
    THEN Outcome(1, 0, <<Ev("error", "vars", pv.name, "_FillValue")>>, "none")
    ELSE Nothing

\* The start of the loop body, for one variable: the strict _FillValue check.
FillValueOutcome(pv, isStrict) ==
    IF isStrict /\ Has(pv.attrs, "_FillValue") /\ ~pv.masked
    THEN Outcome(1, 0, <<Ev("error", "vars", pv.name, "_FillValue")>>, "none")
    ELSE Nothing

\* UnknownVariableOutcome with a warning in strict mode too.
UnknownVariableWarnsOnly(c, v, isStrict) ==
    IF Has(c, "allowed_dimensions") /\ InList(Get(c, "allowed_dimensions").items, v)
    THEN Nothing
    ELSE Outcome(0, 1, <<Ev("warning", "vars", v, "unknown")>>, "none")

\* UnknownVariableOutcome with the allowed dimensions left out of account.
UnknownVariableNoAllowed(c, v, isStrict) ==
    IF isStrict
    THEN Outcome(1, 0, <<Ev("error", "vars", v, "unknown")>>, "none")
    ELSE Outcome(0, 1, <<Ev("warning", "vars", v, "unknown")>>, "none")

\* The variable is in neither the constraints nor the allowed dimensions.
UnknownVariableOutcome(c, v, isStrict) ==
    IF Has(c, "allowed_dimensions") /\ InList(Get(c, "allowed_dimensions").items, v)
    THEN Nothing
    ELSE IF isStrict
    THEN Outcome(1, 0, <<Ev("error", "vars", v, "unknown")>>, "none")
    ELSE Outcome(0, 1, <<Ev("warning", "vars", v, "unknown")>>, "none")

\* An info call for a check that passed, an error call that is counted.
Passed(v, k) == Outcome(0, 0, <<Ev("info", "vars", v, k)>>, "none")

Failed(v, k) == Outcome(1, 0, <<Ev("error", "vars", v, k)>>, "none")

\* An exception leaves the validator.
Raised == Outcome(0, 0, <<>>, "exception")

\* np.all(data == values), np.amin(data), np.amax(data)
AllValuesEqual(d, values) ==
    /\ Len(d) = Len(values) \/ Len(values) = 1
    /\ \A i \in 1..Len(d) :
          d[i] = values[IF Len(values) = 1 THEN 1 ELSE i]

Amin(d) == CHOOSE x \in {d[i] : i \in 1..Len(d)} : \A j \in 1..Len(d) : x <= d[j]

Amax(d) == CHOOSE x \in {d[i] : i \in 1..Len(d)} : \A j \in 1..Len(d) : x >= d[j]

\* required_attributes, from the i-th name on.
RECURSIVE RequiredAttributesOutcome(_, _, _)
RequiredAttributesOutcome(pv, names, i) ==
    IF i > Len(names) THEN Nothing
    ELSE Then(IF ~Has(pv.attrs, names[i])
              THEN Failed(pv.name, names[i])
              ELSE Passed(pv.name, names[i]),
              RequiredAttributesOutcome(pv, names, i + 1))

\* bounds, from the i-th name on.
RECURSIVE BoundsOutcome(_, _, _, _)
BoundsOutcome(p, v, names, i) ==
    IF i > Len(names) THEN Nothing
    ELSE Then(IF ~Has(p.vars, names[i])
              THEN Failed(v, names[i])
              ELSE Passed(v, names[i]),
              BoundsOutcome(p, v, names, i + 1))

\* The error call for a companion variable that is not in the file; the
\* call is made and errcount is left as it is.
CompanionMissing(intervalkey) ==
    Outcome(0, 0, <<Ev("error", "vars", intervalkey, "not in file")>>, "none")

\* required_intervals given as an object: one companion variable.
CompanionOutcome(p, v, item) ==
    IF ~Has(p.vars, item.var) THEN CompanionMissing(item.var)
    ELSE IF ~Has(p.gattrs, "forecast_reference_time") THEN Raised
    ELSE IF item.isStr /\ item.s \notin ALLOWED_PERIODS
    THEN Outcome(0, 0, <<>>, "unsupported_period")
    ELSE LET startdate == Get(p.gattrs, "forecast_reference_time").value
             per  == IF item.isStr THEN item.s
                     ELSE IF item.n = 24 THEN "days" ELSE "hours"
             step == IF item.isStr THEN 1
                     ELSE IF item.n = 24 THEN 1 ELSE item.n
         IN  IF ~CanParse(startdate) THEN Raised
             ELSE IF ~check_stepsize(Get(p.vars, item.var).data, step,
                                     ParseTime(startdate), per)
             THEN Failed(v, "required_intervals")
             ELSE Passed(v, "required_intervals")

\* required_intervals given as an object, from its i-th member on.
RECURSIVE IntervalsMapOutcome(_, _, _, _)
IntervalsMapOutcome(p, v, m, i) ==
    IF i > Len(m) THEN Nothing
    ELSE Then(CompanionOutcome(p, v, m[i]),
              IntervalsMapOutcome(p, v, m, i + 1))

\* The error call for a key that starts with "required" and has no check;
\* the call is made and errcount is left as it is.
NotImplementedOutcome(v, k) ==
    Outcome(0, 0, <<Ev("error", "vars", v, k)>>, "none")

\* OutsideRange with the upper bound left unchecked.
OutsideRangeBelowOnly(d, datrange) ==
    \E i \in 1..Len(d) : d[i] < datrange[1]

\* np.any(data < datrange[0]) or np.any(data > datrange[1])
OutsideRange(d, datrange) ==
    \/ \E i \in 1..Len(d) : d[i] < datrange[1]
    \/ \E i \in 1..Len(d) : d[i] > datrange[2]

\* GlobalValueOutcome with the variable's own attribute in place of the
\* global attribute.
GlobalValueFromVariable(p, v, e) ==
    IF Has(Get(p.vars, v).attrs, e.key)
    THEN IF Get(Get(p.vars, v).attrs, e.key).value = e.s THEN Passed(v, e.key)
         ELSE Failed(v, e.key)
    ELSE Failed(v, e.key)

\* The key is a required global attribute: the value the variable expects
\* is compared with the global attribute of the product.
GlobalValueOutcome(p, v, e) ==
    IF Has(p.gattrs, e.key)
    THEN IF Get(p.gattrs, e.key).value = e.s THEN Passed(v, e.key)
         ELSE Failed(v, e.key)
    ELSE Failed(v, e.key)

\* The body of the loop over constraints[variable]: the check of one key.
KeyOutcome(p, c, v, e) ==
    LET pv == Get(p.vars, v)
    IN  IF e.key = "required_values"
        THEN IF AllValuesEqual(pv.data, e.nums) THEN Passed(v, e.key)
             ELSE Failed(v, e.key)
        ELSE IF e.key = "required_range"
        THEN IF OutsideRange(pv.data, e.nums)
             THEN Failed(v, e.key)
             ELSE Passed(v, e.key)
        ELSE IF e.key = "required_min_max"
        THEN IF Amin(pv.data) # e.nums[1] \/ Amax(pv.data) # e.nums[2]
             THEN Failed(v, e.key)
             ELSE Passed(v, e.key)
        ELSE IF e.key = "required_attributes"
        THEN RequiredAttributesOutcome(pv, e.strs, 1)
        ELSE IF e.key = "required_intervals"
        THEN IF e.form = "map"
             THEN IntervalsMapOutcome(p, v, e.map, 1)
             ELSE IF ~check_stepsize(pv.data, e.n, NoTime, "none")
             THEN Failed(v, e.key)
             ELSE Passed(v, e.key)
        ELSE IF StartsWithRequired(e.key)
        THEN NotImplementedOutcome(v, e.key)
        ELSE IF e.key = "bounds"
        THEN BoundsOutcome(p, v, e.strs, 1)
        ELSE IF e.key = "cell_methods"
        THEN IF ~Has(pv.attrs, e.key) THEN Raised
             ELSE IF match_pattern(e.s, Get(pv.attrs, e.key).value)
             THEN Passed(v, e.key)
             ELSE Failed(v, e.key)
        ELSE IF e.key = "dimensions"
        THEN IF pv.dims # e.strs THEN Failed(v, e.key)
             ELSE Passed(v, e.key)
        ELSE IF /\ Has(c, "required_global_attributes")
                /\ InList(Get(c, "required_global_attributes").items, e.key)
        THEN GlobalValueOutcome(p, v, e)
        ELSE IF Has(pv.attrs, e.key)
             THEN IF Get(pv.attrs, e.key).value # e.s THEN Failed(v, e.key)
                  ELSE Passed(v, e.key)
             ELSE Failed(v, e.key)

(***************************************************************************)
(* The products and constraints the runs are drawn from.                   *)
(***************************************************************************)
NoProduct == [gattrs |-> <<>>, vars |-> <<>>]

NoConstraints == <<>>

\* A product after the example file of the tests: global attributes, a time
\* axis, a latitude axis and one field.  hasRef: the product carries
\* forecast_reference_time; hasCm: the field carries cell_methods; td: the
\* lead times of the time axis; freq: the global attribute frequency;
\* latMasked: some element of each axis is marked missing, so the _FillValue
\* of the axes is in use.
ExampleProduct(hasRef, hasCm, td, freq, latMasked) ==
    [gattrs |->
        <<Attr("title", "example"), Attr("frequency", freq)>>
        \o (IF hasRef
            THEN <<Attr("forecast_reference_time", "1993-01-01T00:00:00Z")>>
            ELSE <<>>),
     vars |->
        <<Var("time", <<Attr("_FillValue", "fill")>>, <<"time">>, td,
              latMasked),
          Var("lat", <<Attr("_FillValue", "fill")>>, <<"lat">>, <<0, 10>>,
              latMasked),
          Var("field",
              <<Attr("units", "1"), Attr("frequency", "day")>>
              \o (IF hasCm THEN <<Attr("cell_methods", "time: point")>> ELSE <<>>),
              <<"time", "lat">>, <<0, 1, 2>>, FALSE)>>]

TimeAxes == {<<0, 6, 12>>, <<0, 24, 48>>, <<0, 30, 60>>}

VarProducts ==
    {ExampleProduct(hasRef, hasCm, td, "6hr", FALSE) :
        hasRef \in BOOLEAN, hasCm \in BOOLEAN, td \in TimeAxes}

\* The constraint keys tried on the field.
KeyCandidates ==
    {Nums("required_values", <<0, 1, 2>>),
     Nums("required_range", <<0, 1>>),
     Nums("required_range", <<0, 2>>),
     Nums("required_range", <<1, 1>>),
     Nums("required_min_max", <<0, 2>>),
     Strs("required_attributes", <<"units", "long_name">>),
     Num("required_intervals", 1),
     Map("required_intervals", <<StepNum("time", 6)>>),
     Map("required_intervals", <<StepNum("time", 24)>>),
     Map("required_intervals", <<StepStr("time", "month")>>),
     Map("required_intervals", <<StepStr("time", "hours")>>),
     Map("required_intervals", <<StepStr("time", "weeks")>>),
     Map("required_intervals", <<StepNum("nosuch", 6), StepStr("time", "weeks")>>),
     Map("required_intervals", <<StepStr("nosuch", "weeks")>>),
     Num("required_foobar", 1),
     Strs("bounds", <<"time", "time_bnds">>),
     Str("cell_methods", "time"),
     Strs("dimensions", <<"time", "lat">>),
     Str("frequency", "6hr"),
     Str("units", "1")}

\* The lists of at most MaxKeys candidates, no key twice.
KeyLists ==
    {l \in SeqsUpTo(KeyCandidates, MaxKeys) :
        \A i, j \in 1..Len(l) : i # j => l[i].key # l[j].key}

\* Constraints after those of the tests: the field constrained by keys, the
\* latitude an allowed dimension, the time axis unknown.
FieldConstraints(keys) ==
    <<TopDict("field", keys),
      TopList("allowed_dimensions", <<"lat">>),
      TopList("required_global_attributes",
              <<"title", "frequency", "short_name">>)>>

\* Runs that vary the constraints on a variable.
VarScenarios ==
    {[product |-> p, constraints |-> FieldConstraints(keys)] :
        p \in VarProducts, keys \in KeyLists}

\* Constraints on the global attribute frequency.
FrequencyConstraints ==
    {<<>>,
     <<TopList("frequency", <<"6hr", "day">>)>>,
     <<TopList("frequency", <<"mon">>)>>,
     <<TopDict("frequency", <<Str("pattern", "\\dhr"), Str("maxlen", "3")>>)>>,
     <<TopDict("frequency", <<Str("pattern", "...")>>)>>,
     <<TopOther("frequency")>>}

RequiredGlobals ==
    {<<>>,
     <<TopList("required_global_attributes",
               <<"title", "frequency", "forecast_reference_time", "short_name">>)>>,
     <<TopList("required_global_attributes", <<"frequency", "source">>)>>}

\* Constraints on the global attribute source, which no product carries.
SourceConstraints == {<<>>, <<TopList("source", <<"model">>)>>}

\* Runs that vary the constraints on the global attributes.
GlobalScenarios ==
    {[product |-> ExampleProduct(TRUE, TRUE, <<0, 6, 12>>, freq, latMasked),
      constraints |-> fc \o sc \o rg
                      \o (IF timeKnown THEN <<TopDict("time", <<>>)>> ELSE <<>>)
                      \o <<TopList("allowed_dimensions", <<"lat">>),
                           TopDict("field", <<Str("frequency", "6hr"),
                                              Str("source", "model")>>)>>] :
        freq \in {"6hr", "mon"}, latMasked \in BOOLEAN, timeKnown \in BOOLEAN,
        fc \in FrequencyConstraints, sc \in SourceConstraints,
        rg \in RequiredGlobals}

Scenarios == VarScenarios \cup GlobalScenarios

(***************************************************************************)
(* The __main__ driver.                                                    *)
(***************************************************************************)
\* ExitStatus with the warnings counted as failures.
ExitStatusCountsWarnings(errs, warns) == IF errs + warns > 0 THEN 1 ELSE 0

\* The exit status at the end of a run that was not cut short.
ExitStatus(errs, warns) == IF errs > 0 THEN 1 ELSE 0

Init ==
    /\ pc = "start"
    /\ strict \in BOOLEAN
    /\ product = NoProduct
    /\ constraints = NoConstraints
    /\ gi = 0 /\ vi = 0 /\ ki = 0
    /\ errcount = 0 /\ warncount = 0
    /\ returns = <<>>
    /\ total = [errs |-> 0, warns |-> 0]
    /\ events = <<>>
    /\ abort = "none"
    /\ exitStatus = -1
    /\ data = <<>> /\ stepsize = 0 /\ ref = NoTime /\ period = "none"
    /\ called = FALSE /\ result = FALSE /\ perturbed = FALSE /\ before = FALSE
    /\ patt = <<>> /\ text = <<>> /\ matchCalled = FALSE /\ match = FALSE
    /\ logger = NoLogger /\ ncalls = 0 /\ lastCall = NoCall

\* Aborted with the exit status of a run that succeeded.
AbortedWithSuccess(why) ==
    /\ pc' = "aborted"
    /\ abort' = why
    /\ exitStatus' = 0

\* The run is cut short: the process exits with status 1.
Aborted(why) ==
    /\ pc' = "aborted"
    /\ abort' = why
    /\ exitStatus' = 1

\* product = load_input(args.input_file)
LoadInput ==
    /\ pc = "start"
    /\ \E sc \in Scenarios : product' = sc.product
    /\ pc' = "input_loaded"
    /\ UNCHANGED <<strict, constraints, gi, vi, ki, errcount, warncount,
                   returns, total, events, abort, exitStatus>>
    /\ UNCHANGED stepVars
    /\ UNCHANGED matchVars
    /\ UNCHANGED loggerVars

\* load_input raises IOError: one critical call, then sys.exit(1).
LoadInputFails ==
    /\ pc = "start"
    /\ events' = Append(events, Ev("critical", "main", "input_file", "load"))
    /\ Aborted("load_input")
    /\ UNCHANGED <<strict, product, constraints, gi, vi, ki, errcount,
                   warncount, returns, total>>
    /\ UNCHANGED stepVars
    /\ UNCHANGED matchVars
    /\ UNCHANGED loggerVars

\* constraints = load_constraints(args.config_path)
LoadConstraints ==
    /\ pc = "input_loaded"
    /\ \E sc \in Scenarios :
          /\ sc.product = product
          /\ constraints' = sc.constraints
    /\ pc' = "loaded"
    /\ UNCHANGED <<strict, product, gi, vi, ki, errcount, warncount,
                   returns, total, events, abort, exitStatus>>
    /\ UNCHANGED stepVars
    /\ UNCHANGED matchVars
    /\ UNCHANGED loggerVars

\* load_constraints raises IOError: one critical call, then sys.exit(1).
LoadConstraintsFails ==
    /\ pc = "input_loaded"
    /\ events' = Append(events, Ev("critical", "main", "config_path", "load"))
    /\ Aborted("load_constraints")
    /\ UNCHANGED <<strict, product, constraints, gi, vi, ki, errcount,
                   warncount, returns, total>>
    /\ UNCHANGED stepVars
    /\ UNCHANGED matchVars
    /\ UNCHANGED loggerVars

\* json.loads raises ValueError (the file is read but is not JSON): the
\* except IOError clause does not catch it, the exception leaves __main__
\* without a call on the logger, the interpreter prints its traceback and
\* the process exits with status 1.
LoadConstraintsRaises ==
    /\ pc = "input_loaded"
    /\ Aborted("parse_constraints")
    /\ UNCHANGED <<strict, product, constraints, gi, vi, ki, errcount,
                   warncount, returns, total, events>>
    /\ UNCHANGED stepVars
    /\ UNCHANGED matchVars
    /\ UNCHANGED loggerVars

\* The position of simple_variable_checks when it turns to variable i.
VarPc(i) == IF i <= Len(product.vars) THEN "var_begin" ELSE "vars_return"

\* "required_global_attributes" in constraints: check_globals is entered.
CallCheckGlobals ==
    /\ pc = "loaded"
    /\ Has(constraints, "required_global_attributes")
    /\ events' = Append(events, Ev("info", "main", "globals", "found"))
    /\ errcount' = 0 /\ warncount' = 0
    /\ gi' = 1
    /\ pc' = "globals_key"
    /\ UNCHANGED <<strict, product, constraints, vi, ki, returns, total,
                   abort, exitStatus>>
    /\ UNCHANGED stepVars
    /\ UNCHANGED matchVars
    /\ UNCHANGED loggerVars

\* One pass of the loop over constraints['required_global_attributes'].
GlobalsKey ==
    /\ pc = "globals_key"
    /\ gi <= Len(Get(constraints, "required_global_attributes").items)
    /\ LET o == GlobalKeyOutcome(product, constraints,
                    Get(constraints, "required_global_attributes").items[gi],
                    DefaultSkip)
       IN  /\ errcount' = errcount + o.errs
           /\ warncount' = warncount + o.warns
           /\ events' = events \o o.evs
    /\ gi' = gi + 1
    /\ UNCHANGED <<pc, strict, product, constraints, vi, ki, returns, total,
                   abort, exitStatus>>
    /\ UNCHANGED stepVars
    /\ UNCHANGED matchVars
    /\ UNCHANGED loggerVars

\* The strict loop over product.ncattrs(), the return of check_globals and
\* the addition of its counts to the totals of __main__.
GlobalsReturn ==
    /\ pc = "globals_key"
    /\ gi > Len(Get(constraints, "required_global_attributes").items)
    /\ LET o == IF strict THEN GlobalStrictOutcome(product, constraints, 1)
                ELSE Nothing
       IN  /\ errcount' = errcount + o.errs
           /\ warncount' = warncount + o.warns
           /\ events' = events \o o.evs
    /\ returns' = Append(returns, [fn |-> "check_globals",
                                   errs |-> errcount', warns |-> warncount'])
    /\ total' = [errs |-> total.errs + errcount',
                 warns |-> total.warns + warncount']
    /\ pc' = "call_variables"
    /\ UNCHANGED <<strict, product, constraints, gi, vi, ki, abort, exitStatus>>
    /\ UNCHANGED stepVars
    /\ UNCHANGED matchVars
    /\ UNCHANGED loggerVars

\* CallVariableChecks entered straight after the load, check_globals or not.
CallVariableChecksAtOnce ==
    /\ pc = "loaded"
    /\ errcount' = 0 /\ warncount' = 0
    /\ vi' = 1 /\ ki' = 0
    /\ pc' = VarPc(1)
    /\ UNCHANGED <<strict, product, constraints, gi, returns, total, events,
                   abort, exitStatus>>
    /\ UNCHANGED stepVars
    /\ UNCHANGED matchVars
    /\ UNCHANGED loggerVars

\* simple_variable_checks is entered, after check_globals or without it.
CallVariableChecks ==
    /\ \/ pc = "call_variables"
       \/ pc = "loaded" /\ ~Has(constraints, "required_global_attributes")
    /\ errcount' = 0 /\ warncount' = 0
    /\ vi' = 1 /\ ki' = 0
    /\ pc' = VarPc(1)
    /\ UNCHANGED <<strict, product, constraints, gi, returns, total, events,
                   abort, exitStatus>>
    /\ UNCHANGED stepVars
    /\ UNCHANGED matchVars
    /\ UNCHANGED loggerVars

\* The start of the loop body for variable vi: the "Checking" call, the
\* strict _FillValue check and the unknown-variable check.
VarBegin ==
    /\ pc = "var_begin"
    /\ LET pv == product.vars[vi]
           known == Has(constraints, pv.name)
           o == Then(Outcome(0, 0, <<Ev("info", "vars", pv.name, "checking")>>, "none"),
                     Then(FillValueOutcome(pv, strict),
                          IF known THEN Nothing
                          ELSE UnknownVariableOutcome(constraints, pv.name, strict)))
       IN  /\ errcount' = errcount + o.errs
           /\ warncount' = warncount + o.warns
           /\ events' = events \o o.evs
           /\ IF known /\ Len(Get(constraints, pv.name).keys) > 0
              THEN pc' = "var_key" /\ ki' = 1 /\ vi' = vi
              ELSE pc' = VarPc(vi + 1) /\ ki' = 0 /\ vi' = vi + 1
    /\ UNCHANGED <<strict, product, constraints, gi, returns, total, abort,
                   exitStatus>>
    /\ UNCHANGED stepVars
    /\ UNCHANGED matchVars
    /\ UNCHANGED loggerVars

\* The variable and the constraint key simple_variable_checks stands at.
CurrentVar == product.vars[vi].name

CurrentKey == Get(constraints, CurrentVar).keys[ki]

\* One pass of the loop over constraints[variable]: the check of key ki.
VarKey ==
    /\ pc = "var_key"
    /\ LET o == KeyOutcome(product, constraints, CurrentVar, CurrentKey)
       IN  /\ errcount' = errcount + o.errs
           /\ warncount' = warncount + o.warns
           /\ events' = events \o o.evs
           /\ IF o.abort # "none"
              THEN /\ Aborted(o.abort)
                   /\ UNCHANGED <<vi, ki>>
              ELSE /\ UNCHANGED <<abort, exitStatus>>
                   /\ IF ki < Len(Get(constraints, CurrentVar).keys)
                      THEN pc' = "var_key" /\ ki' = ki + 1 /\ vi' = vi
                      ELSE pc' = VarPc(vi + 1) /\ ki' = 0 /\ vi' = vi + 1
    /\ UNCHANGED <<strict, product, constraints, gi, returns, total>>
    /\ UNCHANGED stepVars
    /\ UNCHANGED matchVars
    /\ UNCHANGED loggerVars

\* The return of simple_variable_checks and the addition of its counts to
\* the totals of __main__.
VarsReturn ==
    /\ pc = "vars_return"
    /\ returns' = Append(returns, [fn |-> "simple_variable_checks",
                                   errs |-> errcount, warns |-> warncount])
    /\ total' = [errs |-> total.errs + errcount,
                 warns |-> total.warns + warncount]
    /\ pc' = "report"
    /\ UNCHANGED <<strict, product, constraints, gi, vi, ki, errcount,
                   warncount, events, abort, exitStatus>>
    /\ UNCHANGED stepVars
    /\ UNCHANGED matchVars
    /\ UNCHANGED loggerVars

\* The end of __main__: the summary calls and the exit status.
Report ==
    /\ pc = "report"
    /\ events' = events
          \o (IF total.errs > 0
              THEN <<Ev("critical", "main", "errors", "found")>> ELSE <<>>)
          \o (IF total.warns > 0
              THEN <<Ev("warning", "main", "warnings", "raised")>> ELSE <<>>)
    /\ exitStatus' = ExitStatus(total.errs, total.warns)
    /\ pc' = "done"
    /\ UNCHANGED <<strict, product, constraints, gi, vi, ki, errcount,
                   warncount, returns, total, abort>>
    /\ UNCHANGED stepVars
    /\ UNCHANGED matchVars
    /\ UNCHANGED loggerVars

Next ==
    \/ LoadInput
    \/ LoadInputFails
    \/ LoadConstraints
    \/ LoadConstraintsFails
    \/ LoadConstraintsRaises
    \/ CallCheckGlobals
    \/ GlobalsKey
    \/ GlobalsReturn
    \/ CallVariableChecks
    \/ VarBegin
    \/ VarKey
    \/ VarsReturn
    \/ Report

Spec == Init /\ [][Next]_vars

(***************************************************************************)
(* Properties of a run, checked under Spec.                                *)
(***************************************************************************)
\* The constraint kinds simple_variable_checks has a check for among the
\* keys that start with "required".
ImplementedRequired ==
    {"required_values", "required_range", "required_min_max",
     "required_attributes", "required_intervals"}

\* C1: for a variable present in the dataset and in the schema, a key of its
\* schema entry that starts with "required" and is not one of the five
\* implemented kinds is counted as exactly one error: the check of that key
\* raises the error count by exactly one.
C1_UnimplementedCounted ==
    [][(/\ pc = "var_key"
        /\ StartsWithRequired(CurrentKey.key)
        /\ CurrentKey.key \notin ImplementedRequired)
           => errcount' = errcount + 1]_vars

\* The sum of a field over the pairs the validators returned.
RECURSIVE SumErrs(_)
SumErrs(rs) == IF rs = <<>> THEN 0 ELSE Head(rs).errs + SumErrs(Tail(rs))

RECURSIVE SumWarns(_)
SumWarns(rs) == IF rs = <<>> THEN 0 ELSE Head(rs).warns + SumWarns(Tail(rs))

\* C2: a run that is not cut short ends with a failure status (exit status
\* 1, else 0) if and only if the sum of the error counts the validators
\* returned is greater than zero; the warning count plays no part.
C2_StatusIffErrors ==
    pc = "done"
        => /\ exitStatus \in {0, 1}
           /\ exitStatus = 1 <=> SumErrs(returns) > 0

C2_Witness ==
    /\ pc = "done"
    /\ SumWarns(returns) > 0
    /\ SumErrs(returns) = 0
    /\ Len(returns) = 2
    /\ exitStatus = 0

\* C3: apart from the unsupported-period case no check stops the run: the
\* check of a constraint key is followed by the next key, the next variable
\* or the return of the validator.
C3_NoCheckStopsTheRun ==
    [][pc = "var_key"
           => \/ pc' \in {"var_key", "var_begin", "vars_return"}
              \/ abort' = "unsupported_period"]_vars

\* The members of the required_intervals object at hand that name a
\* companion variable of the product and give a keyword outside supported.
Unsupported(supported) ==
    {i \in 1..Len(CurrentKey.map) :
        /\ Has(product.vars, CurrentKey.map[i].var)
        /\ CurrentKey.map[i].isStr
        /\ CurrentKey.map[i].s \notin supported}

FirstOf(S) == CHOOSE i \in S : \A j \in S : i <= j

\* The claim about required_intervals keywords, for a set of supported ones:
\* a keyword outside the set on a companion variable of the product aborts
\* the run there (no pair is returned, the keyword adds no error and no
\* event, nothing happens after the abort), and a keyword inside the set
\* never causes that abort.
KeywordAbort(supported) ==
    /\ (/\ pc = "var_key"
        /\ CurrentKey.key = "required_intervals"
        /\ CurrentKey.form = "map"
        /\ Unsupported(supported) # {})
           => /\ pc' = "aborted"
              /\ exitStatus' = 1
              /\ returns' = returns
              /\ errcount' - errcount <= FirstOf(Unsupported(supported)) - 1
              /\ Len(events') - Len(events)
                     <= FirstOf(Unsupported(supported)) - 1
    /\ (abort = "none" /\ abort' = "unsupported_period")
           => /\ pc = "var_key"
              /\ CurrentKey.key = "required_intervals"
              /\ CurrentKey.form = "map"
              /\ Unsupported(supported) # {}
    /\ pc = "aborted" => UNCHANGED vars

\* C4 as stated: the supported keywords are hours, days, month and years.
C4_FourKeywords ==
    [][KeywordAbort({"hours", "days", "month", "years"})]_vars

\* C4 as amended: the supported keywords are month and years; "hours" and
\* "days" abort the run like any other keyword.
C4_MonthYearsKeywords ==
    [][KeywordAbort({"month", "years"})]_vars

C4_Witness ==
    /\ pc = "aborted"
    /\ abort = "unsupported_period"
    /\ CurrentKey.form = "map"
    /\ \E i \in Unsupported({"month", "years"}) : CurrentKey.map[i].s = "hours"
    /\ Len(returns) = 1
    /\ exitStatus = 1

\* The variable simple_variable_checks stands at has a _FillValue attribute
\* and no element marked missing.
UnusedFill == Has(product.vars[vi].attrs, "_FillValue") /\ ~product.vars[vi].masked

\* The count the strict fill-value finding adds for that variable.
FillFinding == IF strict /\ UnusedFill THEN 1 ELSE 0

\* The variable is listed in allowed_dimensions.
IsAllowedDimension(v) ==
    \E i \in 1..Len(constraints) :
        /\ constraints[i].name = "allowed_dimensions"
        /\ \E j \in 1..Len(constraints[i].items) : constraints[i].items[j] = v

\* C11: for a dataset variable that has no entry in the schema,
\* simple_variable_checks adds nothing when the variable is listed in
\* allowed_dimensions, and otherwise adds exactly one warning and no error
\* in non-strict mode, or exactly one error and no warning in strict mode,
\* the strict fill-value finding aside.
C11_UnknownVariable ==
    [][(/\ pc = "var_begin"
        /\ \A i \in 1..Len(constraints) : constraints[i].name # CurrentVar)
           => IF IsAllowedDimension(CurrentVar)
              THEN /\ errcount' = errcount + FillFinding
                   /\ warncount' = warncount
              ELSE IF strict
              THEN /\ errcount' = errcount + FillFinding + 1
                   /\ warncount' = warncount
              ELSE /\ errcount' = errcount
                   /\ warncount' = warncount + 1]_vars

\* The time axis is unknown and counted as one warning, the latitude is an
\* allowed dimension and adds nothing.
C11_Witness ==
    /\ pc \in {"var_begin", "var_key"} /\ vi = 3
    /\ ~strict
    /\ \A i \in 1..Len(constraints) : constraints[i].name \notin {"time", "lat"}
    /\ ~IsAllowedDimension("time") /\ IsAllowedDimension("lat")
    /\ errcount = 0 /\ warncount = 1

\* The elements of the variable at hand outside [lower, upper].
OutOfBounds ==
    {i \in 1..Len(product.vars[vi].data) :
        \/ product.vars[vi].data[i] < CurrentKey.nums[1]
        \/ product.vars[vi].data[i] > CurrentKey.nums[2]}

\* C12: a required_range constraint [lower, upper] adds exactly one error,
\* whose message names the variable and the key, when at least one element
\* is below lower or above upper, however many are, and adds no error when
\* every element lies in the closed interval [lower, upper].
C12_RequiredRange ==
    [][(pc = "var_key" /\ CurrentKey.key = "required_range")
           => /\ warncount' = warncount
              /\ OutOfBounds # {}
                    => /\ errcount' = errcount + 1
                       /\ events' = Append(events,
                              Ev("error", "vars", CurrentVar, "required_range"))
              /\ (\A i \in 1..Len(product.vars[vi].data) :
                       /\ CurrentKey.nums[1] <= product.vars[vi].data[i]
                       /\ product.vars[vi].data[i] <= CurrentKey.nums[2])
                    => /\ errcount' = errcount
                       /\ \A i \in (Len(events) + 1)..Len(events') :
                              events'[i].sev # "error"]_vars

\* Two elements of the field are out of bounds and one error is counted.
C12_Witness ==
    /\ pc = "vars_return" /\ ~strict
    /\ Has(constraints, "field")
    /\ Get(constraints, "field").keys = <<Nums("required_range", <<1, 1>>)>>
    /\ Cardinality({i \in 1..3 : Get(product.vars, "field").data[i] # 1}) = 2
    /\ errcount = 1
    /\ events[Len(events)] = Ev("error", "vars", "field", "required_range")

\* constraints['required_global_attributes']
RequiredList == Get(constraints, "required_global_attributes").items

\* The global attributes of the product that are not in that list.
Extras ==
    {i \in 1..Len(product.gattrs) :
        \A j \in 1..Len(RequiredList) : RequiredList[j] # product.gattrs[i].name}

\* What the loop over the required attributes counts, from the i-th name on;
\* it does not depend on the strict flag.
RECURSIVE RequiredFindings(_)
RequiredFindings(i) ==
    IF i > Len(RequiredList) THEN Nothing
    ELSE Then(GlobalKeyOutcome(product, constraints, RequiredList[i], DefaultSkip),
              RequiredFindings(i + 1))

\* C13: in strict mode check_globals adds exactly one error for each global
\* attribute of the dataset that is not listed in
\* required_global_attributes, and the errors and warnings for the required
\* attributes are those of non-strict mode; in non-strict mode the extra
\* attributes add nothing.
C13_StrictExtras ==
    (Len(returns) >= 1 /\ returns[1].fn = "check_globals")
        => /\ returns[1].errs = RequiredFindings(1).errs
                                    + (IF strict THEN Cardinality(Extras) ELSE 0)
           /\ returns[1].warns = RequiredFindings(1).warns

\* A strict run on a product with two unrequested global attributes.
C13_Witness ==
    /\ Len(returns) >= 1 /\ returns[1].fn = "check_globals"
    /\ strict
    /\ Cardinality(Extras) = 2
    /\ returns[1].errs = RequiredFindings(1).errs + 2

\* C14: for every name in required_global_attributes that is not in the
\* skip list, check_globals adds exactly one error when the dataset has no
\* global attribute of that name, whether or not the schema holds a
\* constraint entry for it; a name in the skip list adds nothing even when
\* the attribute is absent.
C14_MissingGlobal ==
    [][(/\ pc = "globals_key"
        /\ gi <= Len(RequiredList)
        /\ \A i \in 1..Len(product.gattrs) :
               product.gattrs[i].name # RequiredList[gi])
           => IF \E k \in 1..Len(DefaultSkip) : DefaultSkip[k] = RequiredList[gi]
              THEN /\ errcount' = errcount
                   /\ warncount' = warncount
                   /\ events' = events
              ELSE /\ errcount' = errcount + 1
                   /\ warncount' = warncount]_vars

\* The attribute source is required, absent from the product and has a
\* constraint entry: one error is counted for it.
C14_Witness ==
    /\ pc = "globals_key"
    /\ gi = Len(RequiredList) + 1
    /\ RequiredList[Len(RequiredList)] = "source"
    /\ Has(constraints, "source")
    /\ ~Has(product.gattrs, "source")
    /\ events[Len(events)] = Ev("error", "globals", "source", "missing")
    /\ errcount >= 1

\* The errors a constraint object adds for an attribute value: one for a
\* "pattern" member the value fails, one for every other member.
ObjectErrors(members, value) ==
    Cardinality({j \in 1..Len(members) :
                    members[j].key = "pattern"
                    /\ ~match_pattern(members[j].s, value)})
    + Cardinality({j \in 1..Len(members) : members[j].key # "pattern"})

\* C15: for a required global attribute that is present and not skipped,
\* what check_globals adds is fixed by the same-named top-level schema
\* entry: no entry, nothing; a list, one error iff the value is not a
\* member; an object, for each member independently one error iff it is
\* "pattern" and the value fails the match, and one error for every other
\* member; any other entry, exactly one warning and no error.
C15_PresentGlobal ==
    [][(/\ pc = "globals_key"
        /\ gi <= Len(RequiredList)
        /\ Has(product.gattrs, RequiredList[gi])
        /\ \A k \in 1..Len(DefaultSkip) : DefaultSkip[k] # RequiredList[gi])
           => LET key   == RequiredList[gi]
                  value == Get(product.gattrs, key).value
              IN  IF \A i \in 1..Len(constraints) : constraints[i].name # key
                  THEN errcount' = errcount /\ warncount' = warncount
                  ELSE IF Get(constraints, key).kind = "list"
                  THEN /\ errcount' = errcount
                             + (IF \E j \in 1..Len(Get(constraints, key).items) :
                                       Get(constraints, key).items[j] = value
                                THEN 0 ELSE 1)
                       /\ warncount' = warncount
                  ELSE IF Get(constraints, key).kind = "dict"
                  THEN /\ errcount' = errcount
                             + ObjectErrors(Get(constraints, key).keys, value)
                       /\ warncount' = warncount
                  ELSE /\ errcount' = errcount
                       /\ warncount' = warncount + 1]_vars

\* The frequency "mon" fails the pattern and the object has one more member:
\* two errors are counted for the one attribute.
C15_Witness ==
    /\ pc = "globals_key"
    /\ gi >= 2
    /\ RequiredList[gi - 1] = "frequency"
    /\ Has(constraints, "frequency")
    /\ Get(constraints, "frequency").kind = "dict"
    /\ Get(product.gattrs, "frequency").value = "mon"
    /\ ObjectErrors(Get(constraints, "frequency").keys, "mon") = 2
    /\ Len(events) >= 2
    /\ events[Len(events) - 1] = Ev("error", "globals", "frequency", "pattern")
    /\ events[Len(events)] = Ev("error", "globals", "frequency", "maxlen")

\* The reports of a failure to load: the critical calls on the logger and,
\* for the exception that leaves __main__, the traceback of the interpreter.
LoadReports ==
    Cardinality({i \in 1..Len(events) : events[i].sev = "critical"})
    + (IF abort = "parse_constraints" THEN 1 ELSE 0)

Companion == Get(product.vars, CurrentKey.map[1].var)

\* C18: in a required_intervals mapping from a companion variable to a
\* numeric stepsize n, 24 is checked as one step per calendar day (period
\* days, step 1) and every other n as a cadence of n hours: for n other
\* than 24 the check adds no error if and only if consecutive offsets of
\* the companion variable differ by exactly n hours, whatever n is.
C18_NumericCadence ==
    [][(/\ pc = "var_key"
        /\ CurrentKey.key = "required_intervals"
        /\ CurrentKey.form = "map"
        /\ Len(CurrentKey.map) = 1
        /\ ~CurrentKey.map[1].isStr
        /\ Has(product.vars, CurrentKey.map[1].var)
        /\ Has(product.gattrs, "forecast_reference_time"))
           => IF CurrentKey.map[1].n = 24
              THEN errcount' = errcount
                      <=> check_stepsize(Companion.data, 1,
                              ParseTime(Get(product.gattrs,
                                            "forecast_reference_time").value),
                              "days")
              ELSE errcount' = errcount
                      <=> \A i \in 1..(Len(Companion.data) - 1) :
                              Companion.data[i + 1] - Companion.data[i]
                                  = CurrentKey.map[1].n]_vars

\* The calls "_FillValue present but unused" made for the variable at hand
\* in the step.
FillCalls ==
    {i \in (Len(events) + 1)..Len(events') :
        events'[i] = Ev("error", "vars", CurrentVar, "_FillValue")}

\* C20: in strict mode simple_variable_checks adds exactly one error for
\* every dataset variable that declares a fill-value attribute while none
\* of its elements is marked missing, and it does so for every variable,
\* those without a schema entry and those listed in allowed_dimensions
\* included; in non-strict mode an unused fill value adds nothing.
C20_UnusedFillValue ==
    [][pc = "var_begin"
           => /\ Cardinality(FillCalls) = FillFinding
              /\ errcount' = errcount + FillFinding
                    + (IF /\ strict
                          /\ \A i \in 1..Len(constraints) :
                                 constraints[i].name # CurrentVar
                          /\ ~IsAllowedDimension(CurrentVar)
                       THEN 1 ELSE 0)
              /\ ~strict => errcount' = errcount]_vars

\* A strict run: the time axis has a schema entry, the latitude is an
\* allowed dimension, both declare a fill value they do not use, and each
\* is counted as one error.
C20_Witness ==
    /\ pc \in {"var_begin", "var_key"} /\ vi = 3
    /\ strict
    /\ Has(constraints, "time")
    /\ IsAllowedDimension("lat")
    /\ \A i \in 1..2 : /\ Has(product.vars[i].attrs, "_FillValue")
                        /\ ~product.vars[i].masked
    /\ errcount = 2
    /\ \E i, j \in 1..Len(events) :
          /\ events[i] = Ev("error", "vars", "time", "_FillValue")
          /\ events[j] = Ev("error", "vars", "lat", "_FillValue")

\* Two findings one after the other.
Both(a, b) ==
    [errs |-> a.errs + b.errs, warns |-> a.warns + b.warns,
     evs |-> a.evs \o b.evs]

NoFinding == [errs |-> 0, warns |-> 0, evs |-> <<>>]

Finding(o) == [errs |-> o.errs, warns |-> o.warns, evs |-> o.evs]

\* The findings of the global attribute validator for the product, the
\* schema and the strict flag of the run: the required attributes in the
\* order of the list, then the unrequested attributes.
RECURSIVE RequiredInOrder(_)
RequiredInOrder(i) ==
    IF i > Len(RequiredList) THEN NoFinding
    ELSE Both(Finding(GlobalKeyOutcome(product, constraints, RequiredList[i],
                                       DefaultSkip)),
              RequiredInOrder(i + 1))

GlobalsInOrder ==
    Both(RequiredInOrder(1),
         IF strict THEN Finding(GlobalStrictOutcome(product, constraints, 1))
         ELSE NoFinding)

\* The findings of the variable validator: the variables in dataset order
\* and, for one variable, the keys in schema order.
RECURSIVE KeysInOrder(_, _)
KeysInOrder(v, k) ==
    IF k > Len(Get(constraints, v).keys) THEN NoFinding
    ELSE Both(Finding(KeyOutcome(product, constraints, v,
                                 Get(constraints, v).keys[k])),
              KeysInOrder(v, k + 1))

RECURSIVE VariablesInOrder(_)
VariablesInOrder(i) ==
    IF i > Len(product.vars) THEN NoFinding
    ELSE LET pv == product.vars[i]
         IN  Both([errs |-> 0, warns |-> 0,
                   evs |-> <<Ev("info", "vars", pv.name, "checking")>>],
             Both(Finding(FillValueOutcome(pv, strict)),
             Both(IF Has(constraints, pv.name) THEN KeysInOrder(pv.name, 1)
                  ELSE Finding(UnknownVariableOutcome(constraints, pv.name,
                                                      strict)),
                  VariablesInOrder(i + 1))))

\* C19: in a full run the global attribute validator completes before the
\* variable validator starts, so every event of the global checks precedes
\* every event of the variable checks; the events of the variable
\* validator come in dataset variable order and, for one variable, in
\* schema key order; the final counts are the sums of the counts the two
\* validators returned.  The event sequence and the counts are fixed by
\* the dataset, the schema and the strict flag, so two runs on the same
\* inputs give the same ones.
C19_OrderAndSums ==
    /\ \A i, j \in 1..Len(events) :
           (events[i].src = "vars" /\ events[j].src = "globals") => j < i
    /\ \A i \in 1..Len(returns) :
           returns[i].fn = "simple_variable_checks" => i = Len(returns)
    /\ pc = "done"
          => LET globalsRun == Has(constraints, "required_global_attributes")
                 globals == IF globalsRun THEN GlobalsInOrder ELSE NoFinding
                 variables == VariablesInOrder(1)
             IN  /\ returns =
                        (IF globalsRun
                         THEN <<[fn |-> "check_globals", errs |-> globals.errs,
                                 warns |-> globals.warns]>>
                         ELSE <<>>)
                        \o <<[fn |-> "simple_variable_checks",
                               errs |-> variables.errs,
                               warns |-> variables.warns]>>
                 /\ total = [errs |-> SumErrs(returns),
                             warns |-> SumWarns(returns)]
                 /\ events =
                        (IF globalsRun
                         THEN <<Ev("info", "main", "globals", "found")>>
                         ELSE <<>>)
                        \o globals.evs \o variables.evs
                        \o (IF total.errs > 0
                            THEN <<Ev("critical", "main", "errors", "found")>>
                            ELSE <<>>)
                        \o (IF total.warns > 0
                            THEN <<Ev("warning", "main", "warnings", "raised")>>
                            ELSE <<>>)

\* A full run in which both validators count errors and the field has two
\* constraint keys.
C19_Witness ==
    /\ pc = "done"
    /\ Len(returns) = 2
    /\ returns[1].errs > 0 /\ returns[2].errs > 0
    /\ total.errs = returns[1].errs + returns[2].errs
    /\ Has(constraints, "field")
    /\ Len(Get(constraints, "field").keys) = 2
    /\ \E i, j \in 1..Len(events) :
          /\ i < j
          /\ events[i].src = "globals" /\ events[i].sev = "error"
          /\ events[j].src = "vars" /\ events[j].subject = "field"

\* The key at hand is none of the constraint kinds simple_variable_checks
\* knows and does not start with "required".
PlainKey ==
    /\ ~StartsWithRequired(CurrentKey.key)
    /\ CurrentKey.key \notin {"bounds", "cell_methods", "dimensions"}

\* The key at hand is listed in required_global_attributes.
ListedGlobal ==
    \E i \in 1..Len(constraints) :
        /\ constraints[i].name = "required_global_attributes"
        /\ \E j \in 1..Len(constraints[i].items) :
               constraints[i].items[j] = CurrentKey.key

\* Some attribute of the sequence has the name of the key at hand and the
\* value the schema expects.
HoldsExpected(attrs) ==
    \E i \in 1..Len(attrs) :
        attrs[i].name = CurrentKey.key /\ attrs[i].value = CurrentKey.s

\* C21: for a key of a variable's schema entry that is no recognised
\* constraint kind, does not start with "required" and is listed in
\* required_global_attributes, the expected value is compared with the
\* global attribute of that name and not with the variable's own: exactly
\* one error when the global attribute is missing or differs, none when it
\* is equal.  For such a key that is not listed, the comparison is with the
\* variable's own attribute, with exactly one error when it is missing or
\* differs.
C21_GlobalCrossCheck ==
    [][(pc = "var_key" /\ PlainKey)
           => /\ warncount' = warncount
              /\ errcount' = errcount
                    + (IF HoldsExpected(IF ListedGlobal THEN product.gattrs
                                        ELSE product.vars[vi].attrs)
                       THEN 0 ELSE 1)]_vars

\* The field expects frequency "6hr", the global attribute is "6hr", the
\* field's own attribute is "day": the listed key passes.
C21_Witness ==
    /\ pc \in {"var_key", "vars_return"}
    /\ Has(constraints, "field")
    /\ Has(constraints, "required_global_attributes")
    /\ InList(Get(constraints, "required_global_attributes").items, "frequency")
    /\ Get(product.gattrs, "frequency").value = "6hr"
    /\ Get(Get(product.vars, "field").attrs, "frequency").value = "day"
    /\ \E i \in 1..Len(events) :
          events[i] = Ev("info", "vars", "field", "frequency")

\* The number of events of a severity a validator has emitted so far.
Emitted(src, sev) ==
    Cardinality({i \in 1..Len(events) :
                    events[i].src = src /\ events[i].sev = sev})

\* The validator a returned pair comes from, as the source of its events.
SourceOf(fn) == IF fn = "check_globals" THEN "globals" ELSE "vars"

\* C22: at every point of a run of check_globals or simple_variable_checks,
\* and in the pair finally returned, the error count equals the number of
\* error events emitted so far and the warning count the number of warning
\* events; no error event is emitted without being counted, the one for a
\* required_intervals companion variable absent from the dataset included.
C22_CountsMatchEvents ==
    /\ pc = "globals_key"
          => /\ errcount = Emitted("globals", "error")
             /\ warncount = Emitted("globals", "warning")
    /\ pc \in {"var_begin", "var_key", "vars_return"}
          => /\ errcount = Emitted("vars", "error")
             /\ warncount = Emitted("vars", "warning")
    /\ \A i \in 1..Len(returns) :
          (returns[i].fn = "check_globals" \/ pc \in {"report", "done"})
              => /\ returns[i].errs = Emitted(SourceOf(returns[i].fn), "error")
                 /\ returns[i].warns
                        = Emitted(SourceOf(returns[i].fn), "warning")

\* The top-level schema entry of that name is neither a list nor an object.
OtherEntry(n) ==
    \E i \in 1..Len(constraints) :
        constraints[i].name = n /\ constraints[i].kind \notin {"list", "dict"}

\* The dataset has a variable of that name, the schema has no entry for it
\* and it is not an allowed dimension.
UnknownVariable(n) ==
    /\ \E i \in 1..Len(product.vars) : product.vars[i].name = n
    /\ \A i \in 1..Len(constraints) : constraints[i].name # n
    /\ ~IsAllowedDimension(n)

\* C23: warnings have exactly two sources: a global attribute constraint
\* entry that is neither a list nor an object, and a dataset variable with
\* no schema entry and not in allowed_dimensions under non-strict mode.
\* So in strict mode simple_variable_checks returns a warning count of
\* zero, and check_globals returns a warning count of zero whenever every
\* constraint entry is a list or an object.
C23_WarningSources ==
    /\ \A i \in 1..Len(events) :
          events[i].sev = "warning"
              => \/ events[i].src = "main"
                 \/ events[i].src = "globals" /\ OtherEntry(events[i].subject)
                 \/ /\ events[i].src = "vars"
                    /\ ~strict
                    /\ UnknownVariable(events[i].subject)
    /\ pc = "globals_key" => warncount = Emitted("globals", "warning")
    /\ pc \in {"var_begin", "var_key", "vars_return"}
          => warncount = Emitted("vars", "warning")
    /\ \A i \in 1..Len(returns) :
          /\ (returns[i].fn = "simple_variable_checks" /\ strict)
                => returns[i].warns = 0
          /\ (/\ returns[i].fn = "check_globals"
              /\ \A j \in 1..Len(constraints) :
                     constraints[j].kind \in {"list", "dict"})
                => returns[i].warns = 0

\* A strict run over a dataset with a variable the schema does not know:
\* both validators return a warning count of zero.
C23_Witness ==
    /\ pc = "done"
    /\ strict
    /\ UnknownVariable("time")
    /\ \A j \in 1..Len(constraints) : constraints[j].kind \in {"list", "dict"}
    /\ Len(returns) = 2
    /\ returns[1].warns = 0 /\ returns[2].warns = 0
    /\ \E i \in 1..Len(events) :
          events[i] = Ev("error", "vars", "time", "unknown")


(***************************************************************************)
(* SpecStep: check_stepsize called on inputs drawn from bounded sets.      *)
(***************************************************************************)
\* Reference times: those of the repository's tests.
RefTimes == {Date(2017, 1, 1), Date(2020, 1, 1), Date(2020, 11, 1),
             Date(1995, 4, 1)}

PeriodModes == {"none", "hours", "days", "month", "years"}

\* Lead times (hours) tried under each period: regular cadences of the
\* period, and gaps that are off by hours, days, months or years.
OffsetsFor(p) ==
    IF p = "hours" THEN {0, 6, 12, 30, 60}
    ELSE IF p = "days" THEN {0, 24, 48, 54, 768}
    ELSE IF p = "month" THEN {360, 372, 1092, 1836, 2544}
    ELSE IF p = "years" THEN {0, 8760, 8784, 17520, 17544}
    ELSE {0, 6, 12, 13, 30}

StepsFor(p) ==
    IF p = "hours" THEN {6, 30}
    ELSE IF p = "month" THEN {1, 2, 13}
    ELSE IF p = "none" THEN {0, 6, 7}
    ELSE {1, 2}

InitStep ==
    /\ period \in PeriodModes
    /\ ref \in RefTimes
    /\ data \in SeqsUpTo(OffsetsFor(period), MaxLen)
    /\ stepsize \in StepsFor(period)
    /\ called = FALSE
    /\ result = FALSE
    /\ perturbed = FALSE
    /\ before = FALSE
    /\ pc = "check_stepsize"
    /\ strict = FALSE
    /\ product = NoProduct
    /\ constraints = NoConstraints
    /\ gi = 0 /\ vi = 0 /\ ki = 0
    /\ errcount = 0 /\ warncount = 0
    /\ returns = <<>>
    /\ total = [errs |-> 0, warns |-> 0]
    /\ events = <<>>
    /\ abort = "none"
    /\ exitStatus = -1
    /\ patt = <<>> /\ text = <<>> /\ matchCalled = FALSE /\ match = FALSE
    /\ logger = NoLogger /\ ncalls = 0 /\ lastCall = NoCall

CallCheckStepsize ==
    /\ ~called
    /\ called' = TRUE
    /\ result' = check_stepsize(data, stepsize, ref, period)
    /\ UNCHANGED <<data, stepsize, ref, period, perturbed, before>>
    /\ UNCHANGED runVars
    /\ UNCHANGED matchVars
    /\ UNCHANGED loggerVars

\* A sequence that passed has exactly one element changed and is checked again.
Perturb ==
    /\ called /\ result /\ ~perturbed
    /\ Len(data) >= 2
    /\ \E i \in 1..Len(data) : \E v \in OffsetsFor(period) \ {data[i]} :
          /\ data' = [data EXCEPT ![i] = v]
          /\ result' = check_stepsize(data', stepsize, ref, period)
    /\ before' = result
    /\ perturbed' = TRUE
    /\ UNCHANGED <<stepsize, ref, period, called>>
    /\ UNCHANGED runVars
    /\ UNCHANGED matchVars
    /\ UNCHANGED loggerVars

NextStep == CallCheckStepsize \/ Perturb

SpecStep == InitStep /\ [][NextStep]_vars

(***************************************************************************)
(* Properties of check_stepsize, checked under SpecStep.                   *)
(***************************************************************************)
\* The pairs of neighbours of the current data.
Pairs == 1..(IF Len(data) = 0 THEN 0 ELSE Len(data) - 1)

\* The datetime of the i-th lead time.
Stamp(i) == AddHours(ref, data[i])

\* The data are built by repeatedly adding s to the first element.
IsArithmetic(d, s) == \A i \in 1..Len(d) : d[i] = d[1] + (i - 1) * s

\* The full difference between two lead times in hours or in whole days.
FullDelta(h1, h2, p) ==
    IF p = "hours" THEN h2 - h1
    ELSE Sign(h2 - h1) * (Abs(h2 - h1) \div 24)

\* C5: under period "hours" or "days" check_stepsize returns true if and
\* only if every pair of consecutive timestamps is separated by exactly
\* expected_step of that unit, measured as the full difference between the
\* two timestamps; a gap of expected_step hours plus whole days fails.
C5_FullCalendarDelta ==
    (called /\ period \in {"hours", "days"})
        => (result <=> \A i \in Pairs :
                           FullDelta(data[i], data[i + 1], period) = stepsize)

C7_EveryPeriodMode ==
    (perturbed /\ before) => ~result

\* C7 as amended: with no period, changing exactly one element of a sequence
\* of at least two offsets that passed makes check_stepsize return false.
C7_NoPeriod ==
    (perturbed /\ before /\ period = "none") => ~result

C7_Witness ==
    /\ perturbed /\ before
    /\ period = "none"
    /\ Len(data) >= 3
    /\ ~result

\* C8: without a period check_stepsize returns true if and only if every
\* element is its predecessor plus expected_step; with fewer than two
\* elements it returns true whatever expected_step is.
C8_RawDifferences ==
    (called /\ period = "none")
        => /\ result <=> \A i \in 1..Len(data) :
                             i > 1 => data[i] = data[i - 1] + stepsize
           /\ Len(data) < 2 => result

C8_Witness ==
    /\ called /\ ~perturbed
    /\ period = "none"
    /\ Len(data) >= 3
    /\ stepsize # 0
    /\ result

\* The difference of two month numbers reduced into 0..11.
ReducedMonthDelta(m1, m2) ==
    CHOOSE r \in 0..11 : \E k \in -1..1 : m2 - m1 = r + 12 * k

\* C9: with period "month" check_stepsize returns true if and only if, for
\* every pair of consecutive timestamps, the difference of their calendar
\* month numbers (1..12) reduced modulo 12 into 0..11 equals expected_step;
\* a December to January step counts as 1, and the monthly sequence of
\* 2020-11-01 that crosses the year boundary passes with expected_step = 1.
C9_MonthModulo ==
    (called /\ period = "month")
        => /\ \A i \in 1..Len(data) : Stamp(i).month \in 1..12
           /\ result <=> \A i \in Pairs :
                  ReducedMonthDelta(Stamp(i).month, Stamp(i + 1).month)
                      = stepsize
           /\ (/\ stepsize = 1
               /\ \A i \in Pairs :
                      Stamp(i).month = 12 /\ Stamp(i + 1).month = 1)
                  => result
           /\ (/\ stepsize = 1
               /\ ref = Date(2020, 11, 1)
               /\ data = <<360, 1092, 1836>>)
                  => result

C9_Witness ==
    /\ called /\ ~perturbed
    /\ period = "month" /\ stepsize = 1
    /\ ref = Date(2020, 11, 1)
    /\ data = <<360, 1092, 1836>>
    /\ Stamp(2).month = 12 /\ Stamp(3).month = 1
    /\ result

\* The datetime k calendar years after dt (the day clipped to the month).
Anniversary(dt, k) ==
    [year |-> dt.year + k, month |-> dt.month,
     day |-> Min(DaysInMonth(dt.year + k, dt.month), dt.day),
     hour |-> dt.hour]

\* The number of whole calendar years from d1 to d2.
WholeYears(d1, d2) ==
    IF ToHours(d2) >= ToHours(d1)
    THEN CHOOSE k \in 0..10 :
             /\ ToHours(Anniversary(d1, k)) <= ToHours(d2)
             /\ ToHours(d2) < ToHours(Anniversary(d1, k + 1))
    ELSE -(CHOOSE k \in 0..10 :
             /\ ToHours(Anniversary(d1, -k)) >= ToHours(d2)
             /\ ToHours(d2) > ToHours(Anniversary(d1, -(k + 1))))

\* d2 is the same date and hour as d1, one calendar year later.
OneYearLater(d1, d2) ==
    /\ d2.year = d1.year + 1
    /\ d2.month = d1.month /\ d2.day = d1.day /\ d2.hour = d1.hour

\* C10: with period "years" and expected_step = 1 check_stepsize returns
\* true when consecutive timestamps are exactly one calendar year apart,
\* whether that year has 365 or 366 days, and false when some consecutive
\* pair is a different number of whole calendar years apart.
C10_CalendarYears ==
    (called /\ period = "years" /\ stepsize = 1)
        => /\ (\A i \in Pairs : OneYearLater(Stamp(i), Stamp(i + 1)))
                  => result
           /\ (\E i \in Pairs : WholeYears(Stamp(i), Stamp(i + 1)) # 1)
                  => ~result

C10_Witness ==
    /\ called /\ ~perturbed
    /\ period = "years" /\ stepsize = 1
    /\ ref = Date(2020, 1, 1)
    /\ data = <<0, 8784, 17544>>
    /\ data[2] - data[1] = 8784 /\ data[3] - data[2] = 8760
    /\ \A i \in Pairs : OneYearLater(Stamp(i), Stamp(i + 1))
    /\ result

(***************************************************************************)
(* SpecMatch: match_pattern called on patterns and strings drawn from      *)
(* bounded sets.                                                           *)
(***************************************************************************)
\* The characters of the strings and the tokens of the patterns.
Alphabet == {"a", "b", "c", "1"}

PatternTokens == {"a", "b", ".", "\\d"}

InitMatch ==
    /\ patt \in SeqsUpTo(PatternTokens, MaxStr)
    /\ text \in SeqsUpTo(Alphabet, MaxStr)
    /\ matchCalled = FALSE
    /\ match = FALSE
    /\ pc = "match_pattern"
    /\ strict = FALSE
    /\ product = NoProduct
    /\ constraints = NoConstraints
    /\ gi = 0 /\ vi = 0 /\ ki = 0
    /\ errcount = 0 /\ warncount = 0
    /\ returns = <<>>
    /\ total = [errs |-> 0, warns |-> 0]
    /\ events = <<>>
    /\ abort = "none"
    /\ exitStatus = -1
    /\ data = <<>> /\ stepsize = 0 /\ ref = NoTime /\ period = "none"
    /\ called = FALSE /\ result = FALSE /\ perturbed = FALSE /\ before = FALSE
    /\ logger = NoLogger /\ ncalls = 0 /\ lastCall = NoCall

CallMatchPattern ==
    /\ ~matchCalled
    /\ matchCalled' = TRUE
    /\ match' = patt_match(patt, text)
    /\ UNCHANGED <<patt, text>>
    /\ UNCHANGED runVars
    /\ UNCHANGED stepVars
    /\ UNCHANGED loggerVars

NextMatch == CallMatchPattern

SpecMatch == InitMatch /\ [][NextMatch]_vars

(***************************************************************************)
(* Properties of match_pattern, checked under SpecMatch.                   *)
(***************************************************************************)
\* The pattern matches the whole of the characters chs.
WholeMatch(toks, chs) ==
    /\ Len(toks) = Len(chs)
    /\ \A i \in 1..Len(chs) : TokenMatches(toks[i], chs[i])

\* The pattern matches the n characters of chs that follow position k.
MatchesFrom(toks, chs, k, n) ==
    k + n <= Len(chs) /\ WholeMatch(toks, SubSeq(chs, k + 1, k + n))

\* C17: match_pattern(pattern, value) returns true if and only if the
\* pattern matches a prefix of value starting at position 0; the whole
\* string need not match, and a match that starts later than position 0 is
\* not accepted.
C17_PrefixAnchor ==
    matchCalled
        => /\ match <=> \E n \in 0..Len(text) : MatchesFrom(patt, text, 0, n)
           /\ (\E n \in 0..(Len(text) - 1) : MatchesFrom(patt, text, 0, n))
                  => match
           /\ (/\ \E k \in 1..Len(text) : \E n \in 0..Len(text) :
                      MatchesFrom(patt, text, k, n)
               /\ \A n \in 0..Len(text) : ~MatchesFrom(patt, text, 0, n))
                  => ~match

\* The pattern "ab" matches the string "abc", which goes on after it.
C17_Witness ==
    /\ matchCalled
    /\ patt = <<"a", "b">>
    /\ text = <<"a", "b", "c">>
    /\ ~WholeMatch(patt, text)
    /\ match

(***************************************************************************)
(* SpecLogger: a process that configures the logger under the program name *)
(* and calls the validators as library functions, with and without a       *)
(* logger.                                                                 *)
(***************************************************************************)
\* The validators, and what a caller may pass as their logger argument:
\* nothing (None), a value that is no logger (a string), or a Logger.
Validators == {"check_globals", "simple_variable_checks"}

LoggerArguments == {"None", "str", "Logger"}

\* The verbosities a caller configures the logger with.
Verbosities == {DEBUG, INFO, WARNING, ERROR, CRITICAL}

InitLogger ==
    /\ logger = NoLogger
    /\ ncalls = 0
    /\ lastCall = NoCall
    /\ pc = "library"
    /\ strict = FALSE
    /\ product = NoProduct
    /\ constraints = NoConstraints
    /\ gi = 0 /\ vi = 0 /\ ki = 0
    /\ errcount = 0 /\ warncount = 0
    /\ returns = <<>>
    /\ total = [errs |-> 0, warns |-> 0]
    /\ events = <<>>
    /\ abort = "none"
    /\ exitStatus = -1
    /\ data = <<>> /\ stepsize = 0 /\ ref = NoTime /\ period = "none"
    /\ called = FALSE /\ result = FALSE /\ perturbed = FALSE /\ before = FALSE
    /\ patt = <<>> /\ text = <<>> /\ matchCalled = FALSE /\ match = FALSE

\* The caller configures the logger: initialise_logger(verbosity=v).
ConfigureLogger ==
    /\ Len(logger.handlers) < 2 * MaxCalls
    /\ \E v \in Verbosities : logger' = initialise_logger(logger, v)
    /\ UNCHANGED <<ncalls, lastCall>>
    /\ UNCHANGED runVars
    /\ UNCHANGED stepVars
    /\ UNCHANGED matchVars

\* A call of check_globals or simple_variable_checks: the head of the
\* function, which settles the logger the call reports to.
CallValidator ==
    /\ ncalls < MaxCalls
    /\ \E f \in Validators : \E arg \in LoggerArguments :
          /\ logger' = EnsureLogger(logger, arg)
          /\ lastCall' = [fn |-> f, logger |-> arg]
    /\ ncalls' = ncalls + 1
    /\ UNCHANGED runVars
    /\ UNCHANGED stepVars
    /\ UNCHANGED matchVars

NextLogger == ConfigureLogger \/ CallValidator

SpecLogger == InitLogger /\ [][NextLogger]_vars

(***************************************************************************)
(* Properties of the logger, checked under SpecLogger.                     *)
(***************************************************************************)
\* C24: calling check_globals or simple_variable_checks without a logger,
\* or with a value that is no logger, leaves the logger registered under
\* the program name unchanged: its level and its handlers are the same
\* after the call as before it, for any number of successive calls.
C24_LoggerUntouched ==
    [][(ncalls' = ncalls + 1 /\ lastCall'.logger \in {"None", "str"})
           => /\ logger'.level = logger.level
              /\ logger'.handlers = logger.handlers]_vars

====
